---- MODULE Spec2Model ----
(***************************************************************************)
(* Model of assets/gui_server_utils.py: the command loop of the GUI server *)
(* (receive one command, route it to a handler, send one response) and the *)
(* interactive test session it drives (spawn_test, get_test_output,        *)
(* send_test_cmd).                                                         *)
(***************************************************************************)
EXTENDS Integers, Sequences, FiniteSets, TLC

(* ------------------------------ bounds --------------------------------- *)

\* number of receive attempts of the command loop that are explored
MaxCmds == 2

\* number of read events (lines, read failures) a child's stdout holds
MaxScript == 5

(* ------------------------- JSON values --------------------------------- *)
\* A JSON value is a tagged record; a Python dict is a function from keys
\* (strings) to JSON values.

Str(s) == [t |-> "str", v |-> s]

Num(s) == [t |-> "num", v |-> s]

Null == [t |-> "null", v |-> ""]

List(s) == [t |-> "list", v |-> s]

Obj(m) == [t |-> "obj", v |-> m]

\* a dict with one more key (data[k] = x)
SetKey(m, k, x) == [key \in DOMAIN m \cup {k} |-> IF key = k THEN x ELSE m[key]]

EmptyDict == [key \in {} |-> Null]

(* ------------------------- lines of the child -------------------------- *)
\* A raw line is the sequence of characters one iteration of
\* `for line in process.stdout` yields, its line terminator included.

Whitespace == {" ", "\n", "\t", "\r"}

RECURSIVE Rstrip(_)
\* str.rstrip(): drop the trailing whitespace characters
Rstrip(s) ==
    IF s = <<>> THEN s
    ELSE IF s[Len(s)] \in Whitespace THEN Rstrip(SubSeq(s, 1, Len(s) - 1))
    ELSE s

TEST_PROMPT == <<" ", " ", "C", "M", "D", ">">>

(* ----------------------------- TestSession ----------------------------- *)
\* What the child's stdout yields, read by read: a line, or a read that
\* raises (an I/O error, or line.decode() failing).  The end of the
\* sequence is the end of the stream.  The two commands the server injects
\* are fixed, so a child is determined by the sequence it prints.

Line(raw) == [kind |-> "line", raw |-> raw]

ReadRaises == [kind |-> "raise", raw |-> <<>>]

RawLines ==
    { <<"a", "\n">>,
      <<"b", " ", "\n">>,
      <<" ", " ", "C", "M", "D", ">", "\n">>,
      <<"C", "M", "D", ">", "\n">> }

Events == {Line(raw) : raw \in RawLines} \cup {ReadRaises}

\* the sequences over S of length at most n
SeqsUpTo(S, n) == UNION {[1..k -> S] : k \in 0..n}

Scripts == SeqsUpTo(Events, MaxScript)

\* str(e) of the exceptions the model raises
SpawnError == "[Errno 2] No such file or directory"

ReadError == "read failed"

WriteError == "[Errno 32] Broken pipe"

SendError == "send failed"

RECURSIVE read_loop_keeps_prompt(_, _, _)
\* read_loop with the prompt line appended to the output before the break
read_loop_keeps_prompt(stream, output, process_alive) ==
    IF stream = <<>>
    THEN [error |-> Null, output |-> output, prompt |-> FALSE,
          process_alive |-> process_alive, rest |-> stream]
    ELSE LET ev == Head(stream) IN
         IF ev.kind = "raise"
         THEN [error |-> Str(ReadError), output |-> output, prompt |-> FALSE,
               process_alive |-> process_alive, rest |-> Tail(stream)]
         ELSE IF ev.raw = <<>>
         THEN [error |-> Null, output |-> output, prompt |-> FALSE,
               process_alive |-> FALSE, rest |-> Tail(stream)]
         ELSE LET l == Rstrip(ev.raw) IN
              IF l = TEST_PROMPT
              THEN [error |-> Null, output |-> Append(output, l), prompt |-> TRUE,
                    process_alive |-> process_alive, rest |-> Tail(stream)]
              ELSE read_loop_keeps_prompt(Tail(stream), Append(output, l), process_alive)

RECURSIVE read_loop(_, _, _)
\* the try block of get_test_output: `for line in process.stdout` with its
\* two breaks and its except clause.  The iteration never yields an empty
\* line (RawLines holds none), so the `line == b''` break is not taken.
read_loop(stream, output, process_alive) ==
    IF stream = <<>>
    THEN [error |-> Null, output |-> output, prompt |-> FALSE,
          process_alive |-> process_alive, rest |-> stream]
    ELSE LET ev == Head(stream) IN
         IF ev.kind = "raise"
         THEN [error |-> Str(ReadError), output |-> output, prompt |-> FALSE,
               process_alive |-> process_alive, rest |-> Tail(stream)]
         ELSE IF ev.raw = <<>>
         THEN [error |-> Null, output |-> output, prompt |-> FALSE,
               process_alive |-> FALSE, rest |-> Tail(stream)]
         ELSE LET l == Rstrip(ev.raw) IN
              IF l = TEST_PROMPT
              THEN [error |-> Null, output |-> output, prompt |-> TRUE,
                    process_alive |-> process_alive, rest |-> Tail(stream)]
              ELSE read_loop(Tail(stream), Append(output, l), process_alive)

\* get_test_output that kills the child only after a read that raised
get_test_output_kills_on_error(stream) ==
    LET r == read_loop(stream, <<>>, TRUE)
        process_alive == IF ~r.prompt THEN FALSE ELSE r.process_alive
    IN  [error |-> r.error, output |-> r.output, prompt |-> process_alive,
         killed |-> ~r.prompt /\ r.error # Null, rest |-> r.rest]

\* get_test_output without `process_alive = False` and the kill of the
\* `if not prompt` branch
get_test_output_stays_alive(stream) ==
    LET r == read_loop(stream, <<>>, TRUE)
    IN  [error |-> r.error, output |-> r.output, prompt |-> r.process_alive,
         killed |-> FALSE, rest |-> r.rest]

\* get_test_output(process): read until the prompt or the end of the output.
\* `killed` records the process.kill() of the `if not prompt` branch; `rest`
\* is what is left unread in process.stdout.
get_test_output(stream) ==
    LET r == read_loop(stream, <<>>, TRUE)
        process_alive == IF ~r.prompt THEN FALSE ELSE r.process_alive
    IN  [error |-> r.error, output |-> r.output, prompt |-> process_alive,
         killed |-> ~r.prompt, rest |-> r.rest]

\* spawn_test(test, params): Popen either raises (spawnOk = FALSE) or gives
\* a process whose stdout is `script`.
spawn_test(spawnOk, script) ==
    IF spawnOk
    THEN LET test == get_test_output(script)
         IN  [error |-> test.error, output |-> test.output, prompt |-> test.prompt,
              killed |-> test.killed, rest |-> test.rest, process |-> TRUE]
    ELSE [error |-> Str(SpawnError), output |-> <<>>, prompt |-> FALSE,
          killed |-> FALSE, rest |-> <<>>, process |-> FALSE]

\* send_test_cmd(process, cmd): one call, and whether the write and the
\* flush succeeded.
send_test_cmd(cmd, ok) == [cmd |-> cmd, ok |-> ok]

\* What the run_test branch of the loop does up to its send_response:
\*   raised   an exception left the branch before any send_response (err is
\*            its str(e))
\*   data     the dict handed to send_response otherwise
\*   spawned  Popen returned a process
\*   killed   a get_test_output call has killed the process
\*   last     the branch is at the send_response that process.kill() follows
\*   stdin    the send_test_cmd calls made, in order
RunResult(raised, err, data, spawned, killed, last, stdin) ==
    [raised |-> raised, err |-> err, data |-> data, spawned |-> spawned,
     killed |-> killed, last |-> last, stdin |-> stdin]

\* Step 3 of the run_test branch, lines 581-584, after exit() was written:
\* the last read, and the dict of the last send_response.  `output` is the
\* list test["output"] itself, extended in place; `data` is the list of
\* step 2.
run_test_step3(test, out, out3, stdin) ==
    RunResult(FALSE, "",
              [error |-> out3.error,
               output |-> List((test.output \o out.output) \o out3.output),
               data |-> List(out.output)],
              TRUE, test.killed \/ out.killed \/ out3.killed, TRUE, stdin)

\* Step 2, lines 569-580, after list_ops() was written and read until
\* ready: the two tests of the outcome, then exit() is written.
run_test_step2(test, out, wok2) ==
    IF out.error # Null
    THEN RunResult(FALSE, "",
                   [error |-> test.error, output |-> List(test.output \o out.output)],
                   TRUE, test.killed \/ out.killed, FALSE,
                   <<send_test_cmd("list_ops()", TRUE)>>)
    ELSE IF ~test.prompt
    THEN RunResult(FALSE, "",
                   [error |-> Str("Test stopped after first command."),
                    output |-> List(test.output \o out.output)],
                   TRUE, test.killed \/ out.killed, FALSE,
                   <<send_test_cmd("list_ops()", TRUE)>>)
    ELSE IF ~wok2
    THEN RunResult(TRUE, WriteError, EmptyDict, TRUE, test.killed \/ out.killed, FALSE,
                   <<send_test_cmd("list_ops()", TRUE), send_test_cmd("exit()", FALSE)>>)
    ELSE run_test_step3(test, out, get_test_output(out.rest),
                        <<send_test_cmd("list_ops()", TRUE), send_test_cmd("exit()", TRUE)>>)

\* Step 1, lines 556-568, after spawn_test: the two tests of its outcome,
\* then list_ops() is written and the output read until ready.
run_test_step1(test, wok1, wok2) ==
    IF test.error # Null
    THEN RunResult(FALSE, "", [error |-> test.error, output |-> List(test.output)],
                   test.process, test.killed, FALSE, <<>>)
    ELSE IF ~test.prompt
    THEN RunResult(FALSE, "",
                   [error |-> Str("Test completed without a prompt."),
                    output |-> List(test.output)],
                   test.process, test.killed, FALSE, <<>>)
    ELSE IF ~wok1
    THEN RunResult(TRUE, WriteError, EmptyDict, TRUE, test.killed, FALSE,
                   <<send_test_cmd("list_ops()", FALSE)>>)
    ELSE run_test_step2(test, get_test_output(test.rest), wok2)

\* The run_test branch of the loop up to its send_response, lines 552-584:
\* d['test'] raises KeyError when the key is missing.
run_test_steps(d, spawnOk, script, wok1, wok2) ==
    IF "test" \notin DOMAIN d
    THEN RunResult(TRUE, "'test'", EmptyDict, FALSE, FALSE, FALSE, <<>>)
    ELSE run_test_step1(spawn_test(spawnOk, script), wok1, wok2)

(* ---------------------------- CommandChannel --------------------------- *)

\* send_response(connection, data) up to the write: the dict that is
\* serialised, its error key set to "" when missing or None.
send_response(data) ==
    IF "error" \notin DOMAIN data \/ data["error"].t = "null"
    THEN SetKey(data, "error", Str(""))
    ELSE data

(* --------------------------- CommandDispatcher ------------------------- *)

Cmd(name) == Obj([cmd |-> Str(name)])

With(o, k, x) == Obj(SetKey(o.v, k, x))

\* the JSON values receive_cmd returns in the model
Commands ==
    LET dir == Str("out")
    IN  { Cmd("quit"),
          Cmd("echo"),
          With(Cmd("echo"), "error", Null),
          With(Cmd("echo"), "error", Num("5")),
          With(Cmd("echo"), "error", Str("e")),
          Cmd("list_tests"),
          Cmd("list_spatial_json"), With(Cmd("list_spatial_json"), "dir", dir),
          Cmd("list_netlist_yaml"), With(Cmd("list_netlist_yaml"), "dir", dir),
          Cmd("list_all_perf_results"), With(Cmd("list_all_perf_results"), "dir", dir),
          Cmd("read_perf_dump_folder"), With(Cmd("read_perf_dump_folder"), "dir", dir),
          With(Cmd("read_file"), "dir", dir),
          With(Cmd("read_file"), "filename", Str("f.json")),
          With(With(Cmd("read_file"), "dir", dir), "filename", Str("f.json")),
          With(Cmd("write_file"), "filename", Str("/f.json")),
          With(With(Cmd("write_file"), "filename", Str("/f.json")), "data", Str("x")),
          Cmd("run_test"), With(Cmd("run_test"), "test", Str("t1")),
          Cmd("bogus"),
          Obj([cmd |-> Num("5")]),
          Obj(EmptyDict),
          Num("5") }

\* the cmd values the loop has a branch for
Catalog ==
    {"quit", "echo", "list_tests", "list_spatial_json", "list_netlist_yaml",
     "list_all_perf_results", "read_perf_dump_folder", "read_file", "write_file",
     "run_test"}

\* the ghost record of a loop iteration that ran no test
NoRun == [ran |-> FALSE, spawnOk |-> FALSE, script |-> <<>>, stdin |-> <<>>]

VARIABLES
    pc,      \* "receive": at receive_cmd; "dispatch": at `cmd = d['cmd']`;
             \* "exited": the while loop ended; "crashed": an exception left it
    done,    \* the loop variable `done`
    d,       \* the command received last
    peer,    \* "open", or "closed" once the peer has closed the stream
    recv,    \* what the last receive_cmd did: "none", "ok", "eof", "malformed"
    nrecv,   \* number of receive_cmd calls so far
    resp,    \* the responses put on the channel since the last receive_cmd call
    exc,     \* what raised in the try block of this iteration: "none",
             \* "receive", "handler" (before send_response), "send"
    sends,   \* the send_response calls since the last receive_cmd call: TRUE
             \* for one that returned, FALSE for one that raised
    procs,   \* the children spawned so far, each "alive" or "killed"
    run,     \* the run_test of this iteration: the child's script, the
             \* send_test_cmd calls
    sock,    \* the listening socket `sock`: "none" (local mode), "open",
             \* "closed"
    connection,  \* the accepted socket `connection`: "none" (local mode),
             \* "open", "closed"
    wire,    \* the bytes sent on the stream and not yet read from it
    rcv,     \* the receive_cmd call in progress: its position and its locals
             \* amount_expected, amount_received, rec_buffer
    got,     \* what the receive_cmd calls made so far returned or raised
    sent,    \* the values given to send_response so far, with their payloads
    fs,      \* the directory a read_perf_dump_folder names: its sub folders
             \* and the files of each folder in the order os.listdir gives
    agg,     \* what PerfDumpData made of fs, and the response sent
    reading  \* a get_test_output call: the stdout it reads and what it
             \* returned

\* the variables of the command loop
loop == <<pc, done, d, peer, recv, nrecv, resp, sends, exc, procs, run>>

\* the variables of the framed stream
channel == <<wire, rcv, got, sent>>

\* the variables of the perf dump aggregation
perfdump == <<fs, agg>>

\* the variables the command loop leaves alone
outside == <<sock, connection, channel, perfdump, reading>>

vars == <<loop, sock, connection, channel, perfdump, reading>>

\* lines 37-69: --local leaves both sockets None; otherwise `sock` listens
\* and `connection` is the socket accept() returned
Startup(local) ==
    /\ sock = IF local THEN "none" ELSE "open"
    /\ connection = IF local THEN "none" ELSE "open"

\* the state in which the while loop of line 481 is entered
LoopEntry ==
    /\ pc = "receive"
    /\ done = FALSE
    /\ d = Null
    /\ peer = "open"
    /\ recv = "none"
    /\ nrecv = 0
    /\ resp = <<>>
    /\ sends = <<>>
    /\ exc = "none"
    /\ procs = <<>>
    /\ run = NoRun

\* no receive_cmd call in progress
Idle == [pc |-> "idle", expected |-> 0, received |-> 0, buffer |-> <<>>]

\* a stream on which nothing has been sent
ChannelIdle ==
    /\ wire = <<>>
    /\ rcv = Idle
    /\ got = <<>>
    /\ sent = <<>>

\* no directory looked at
NoDir == [isdir |-> FALSE, root |-> "", dirs |-> {}, files |-> <<>>]

\* no PerfDumpData built
NoAgg == [ran |-> FALSE, raised |-> FALSE, data |-> <<>>, resp |-> <<>>]

PerfDumpIdle ==
    /\ fs = NoDir
    /\ agg = NoAgg

\* no get_test_output call on its own
NoReading == [stream |-> <<>>, returned |-> FALSE, test |-> <<>>]

Init ==
    /\ LoopEntry
    /\ Startup(FALSE)
    /\ ChannelIdle
    /\ PerfDumpIdle
    /\ reading = NoReading

\* try_except with an except clause that only logs
try_except_no_response(raised, err, data, sok1, sok2) ==
    IF raised
    THEN [resp |-> <<>>, calls |-> <<>>, exc |-> "handler", escaped |-> FALSE]
    ELSE IF sok1
    THEN [resp |-> <<send_response(data)>>, calls |-> <<sok1>>, exc |-> "none",
          escaped |-> FALSE]
    ELSE [resp |-> <<>>, calls |-> <<sok1>>, exc |-> "send", escaped |-> FALSE]

\* try_except without the inner try: the exception leaves the loop
try_except_propagates(raised, err, data, sok1, sok2) ==
    IF raised
    THEN [resp |-> <<>>, calls |-> <<>>, exc |-> "handler", escaped |-> TRUE]
    ELSE IF sok1
    THEN [resp |-> <<send_response(data)>>, calls |-> <<sok1>>, exc |-> "none",
          escaped |-> FALSE]
    ELSE [resp |-> <<>>, calls |-> <<sok1>>, exc |-> "send", escaped |-> TRUE]

\* One pass through the try/except of the loop body, lines 484-591, for a
\* branch that raises before its send_response (raised, err = str(e)) or
\* calls send_response(data).  sok1 and sok2 say whether the send_response
\* of the branch and the one of the except clause return or raise; a
\* send_response that raises has put no response on the channel.
\*   resp     the responses put on the channel
\*   calls    the outcome of each send_response call, in order
\*   exc      what raised in the try block
\*   escaped  the send_response of the except clause raised, which leaves
\*            the while loop
try_except(raised, err, data, sok1, sok2) ==
    IF raised
    THEN IF sok2
         THEN [resp |-> <<send_response([error |-> Str(err)])>>, calls |-> <<sok2>>,
               exc |-> "handler", escaped |-> FALSE]
         ELSE [resp |-> <<>>, calls |-> <<sok2>>, exc |-> "handler", escaped |-> TRUE]
    ELSE IF sok1
    THEN [resp |-> <<send_response(data)>>, calls |-> <<sok1>>, exc |-> "none",
          escaped |-> FALSE]
    ELSE IF sok2
    THEN [resp |-> <<send_response([error |-> Str(SendError)])>>,
          calls |-> <<sok1, sok2>>, exc |-> "send", escaped |-> FALSE]
    ELSE [resp |-> <<>>, calls |-> <<sok1, sok2>>, exc |-> "send", escaped |-> TRUE]

\* the loop after one pass: `while not done`, or the exception going up
next_pc(escaped, isDone) ==
    IF escaped THEN "crashed" ELSE IF isDone THEN "exited" ELSE "receive"

\* the listings `find` prints in the model, one path per line
FindOutputs == {<<>>, <<"p1">>, <<"p1", "p2">>}

\* stdout.decode('utf-8').rstrip().split('\n') of a listing: its paths, or
\* one empty string when nothing was printed
split_lines(paths) == IF paths = <<>> THEN <<"">> ELSE paths

\* [folder for folder in perf_results if os.path.isdir(folder)]
RECURSIVE filter_isdir(_, _)
filter_isdir(paths, dirs) ==
    IF paths = <<>> THEN <<>>
    ELSE IF Head(paths) \in dirs
         THEN <<Head(paths)>> \o filter_isdir(Tail(paths), dirs)
         ELSE filter_isdir(Tail(paths), dirs)

\* the lines of the files read_file finds in the model
FileTexts == {<<"">>, <<"{", "}">>}

(* ----------------------------- PerfDumpData ---------------------------- *)
\* A file name is the tuple of its tokens: runs of digits, single other
\* characters, and the words the patterns spell out.  A directory is given
\* by the name of its root, the set of its sub folders (each the tuple of
\* folder names leading to it from the root, the root being <<>>) and, for
\* each folder, its files in the order os.listdir returns them.  The order
\* in which os.listdir returns sub folders only changes the order in which
\* keys enter the dicts, so the sub folders are kept as a set.

\* number of files in the directory tree
MaxFiles == 3

\* the runs of digits the file names of the model hold
DigitRuns == {"0", "3", "12"}

PostprocessName == <<"perf_postprocess", ".", "json">>

PostprocessEpochName == <<"perf_postprocess_epoch_", "0", ".", "json">>

RuntimeTableName == <<"runtime_table", ".", "json">>

GraphDumpName == <<"perf_graph_", "g", ".", "dot">>

HostName3 == <<"p_", "proc_", "3", ".", "json">>

HostName12 == <<"proc_", "12", ".", "json">>

\* re.match(r'^perf_postprocess.json$', name): the dot stands for any one
\* character
silicon_regex(name) ==
    Len(name) = 3 /\ name[1] = "perf_postprocess" /\ name[3] = "json"

\* re.match(r'^perf_postprocess_epoch_(\d+).json$', name)
silicon_regex_spatial1(name) ==
    /\ Len(name) = 4
    /\ name[1] = "perf_postprocess_epoch_"
    /\ name[2] \in DigitRuns
    /\ name[4] = "json"

\* re.match(r'^runtime_table.json$', name)
model_regex(name) ==
    Len(name) = 3 /\ name[1] = "runtime_table" /\ name[3] = "json"

\* re.match(r'^runtime_table_epoch_(\d+).json$', name)
model_regex_spatial1(name) ==
    /\ Len(name) = 4
    /\ name[1] = "runtime_table_epoch_"
    /\ name[2] \in DigitRuns
    /\ name[4] = "json"

\* re.match(r'^perf_graph_(\S+).dot$', name)
graph_regex(name) ==
    /\ Len(name) = 4
    /\ name[1] = "perf_graph_"
    /\ name[2] \notin Whitespace
    /\ name[4] = "dot"

\* re.match(r'^(.*)proc_(\d+).json$', name): any tokens, then proc_, a run
\* of digits, any one character, json
host_json_regex(name) ==
    /\ Len(name) >= 4
    /\ name[Len(name) - 3] = "proc_"
    /\ name[Len(name) - 2] \in DigitRuns
    /\ name[Len(name)] = "json"

\* .group(2) of that match: the run of digits
host_json_group2(name) == name[Len(name) - 2]

\* the content of a file that json.load cannot parse: no JSON document, or
\* no byte at all
Malformed == [t |-> "malformed", v |-> ""]

\* the truth value Python gives a parsed JSON document
Truthy(j) ==
    CASE j.t = "obj" -> DOMAIN j.v # {}
      [] j.t = "list" -> j.v # <<>>
      [] j.t = "str" -> j.v # ""
      [] j.t = "num" -> j.v # "0"
      [] OTHER -> FALSE

File(name, content) == [name |-> name, content |-> content]

\* the files the model puts in a folder that is not called host
DataFiles ==
    { File(PostprocessName, Obj([g |-> Num("1")])),
      File(PostprocessName, Obj(EmptyDict)),
      File(PostprocessName, Malformed),
      File(PostprocessEpochName, Obj([g |-> Num("2")])),
      File(RuntimeTableName, Obj([m |-> Num("1")])),
      File(RuntimeTableName, Obj(EmptyDict)),
      File(GraphDumpName, Str("digraph")) }

\* the files the model puts in a folder called host
HostFiles ==
    { File(HostName3, Obj([evt1 |-> Obj([x |-> Num("1")])])),
      File(HostName12, Obj([evt1 |-> Obj([y |-> Num("2")]),
                            evt2 |-> Obj(EmptyDict)])),
      File(HostName12, Malformed),
      File(PostprocessName, Obj([g |-> Num("1")])) }

\* the sets of sub folders of the roots of the model
Skeletons ==
    { {},
      {<<"run1">>},
      {<<"host">>},
      {<<"run1">>, <<"run2">>},
      {<<"run1">>, <<"run2">>, <<"run2", "host">>},
      {<<"run1">>, <<"run1", "run2">>},
      {<<"host">>, <<"host", "run1">>} }

\* the names of the roots of the model
RootNames == {"out", "host"}

\* os.path.basename of the folder p of the directory f
basename(f, p) == IF p = <<>> THEN f.root ELSE p[Len(p)]

\* the folders of the directory f, its root included
folders(f) == f.dirs \cup {<<>>}

\* get_subfolders(folderpath), lines 422-423
get_subfolders(f, p) ==
    {q \in f.dirs : Len(q) = Len(p) + 1 /\ SubSeq(q, 1, Len(p)) = p}

\* the last element of a list, or none
Last(s) == IF s = <<>> THEN <<>> ELSE <<s[Len(s)]>>

is_silicon(file) == silicon_regex(file.name) \/ silicon_regex_spatial1(file.name)

is_model(file) == model_regex(file.name) \/ model_regex_spatial1(file.name)

is_graph(file) == graph_regex(file.name)

is_host_json(file) == host_json_regex(file.name)

is_malformed(file) == file.content = Malformed

\* find_perf_json_files(folderpath), lines 426-437
find_perf_json_files(f, p) ==
    SelectSeq(f.files[p], LAMBDA file : is_silicon(file) \/ is_model(file))

\* find_graph_dumps(folderpath), lines 439-448
find_graph_dumps(f, p) == SelectSeq(f.files[p], is_graph)

\* find_host_json_files(hostPath), lines 450-452
find_host_json_files(f, p) == SelectSeq(f.files[p], is_host_json)

\* "/".join(folder_path): the names with a "/" between them
RECURSIVE join(_)
join(p) == IF Len(p) <= 1 THEN p ELSE <<p[1], "/">> \o join(Tail(p))

\* key.split("/")
split(k) == IF k = <<>> THEN <<"">> ELSE SelectSeq(k, LAMBDA x : x # "/")

\* dict.update: the items of b, and those of a that b does not replace
update(a, b) ==
    [k \in DOMAIN a \cup DOMAIN b |-> IF k \in DOMAIN b THEN b[k] ELSE a[k]]

\* the dict with the one item k: x
Item(k, x) == [key \in {k} |-> x]

\* what PerfDumpData returns or raises
Built(data) == [raised |-> FALSE, err |-> "", data |-> data]

Failed(err) == [raised |-> TRUE, err |-> err, data |-> EmptyDict]

RECURSIVE insert_path(_, _)
\* the inner loop of set_folder_map, lines 238-241
insert_path(sub_folder_map, folder_path) ==
    IF folder_path = <<>> THEN sub_folder_map
    ELSE LET folder == Head(folder_path)
             below == IF folder \in DOMAIN sub_folder_map
                      THEN sub_folder_map[folder] ELSE EmptyDict
         IN  update(sub_folder_map,
                    Item(folder, insert_path(below, Tail(folder_path))))

RECURSIVE set_folder_map(_)
\* set_folder_map(all_folder_paths), lines 234-243
set_folder_map(all_folder_paths) ==
    IF all_folder_paths = {} THEN EmptyDict
    ELSE LET folder_path == CHOOSE p \in all_folder_paths : TRUE
         IN  insert_path(set_folder_map(all_folder_paths \ {folder_path}),
                         folder_path)

\* the files of the listing that the silicon patterns match, lines 269-272
post_processes(f, p) == SelectSeq(f.files[p], is_silicon)

RECURSIVE visited(_, _)
\* the folders extract_all_folder_paths is called on, lines 256-286: it
\* goes no further below a folder called host or without sub folders
visited(f, p) ==
    {p} \cup
    (IF basename(f, p) = "host" \/ get_subfolders(f, p) = {} THEN {}
     ELSE UNION {visited(f, q) : q \in get_subfolders(f, p)})

\* the test of a folder that takes any number of postprocess files, the
\* first of which is read
is_result_folder_any_count(f, p) ==
    IF basename(f, p) = "host"
    THEN find_host_json_files(f, p) # <<>>
    ELSE /\ get_subfolders(f, p) = {}
         /\ Len(post_processes(f, p)) >= 1
         /\ Truthy(post_processes(f, p)[1].content)

\* lines 258-262 and 267-282: a folder called host is kept when it has host
\* files; another one when it has no sub folder and exactly one postprocess
\* file, whose document is not empty
is_result_folder(f, p) ==
    IF basename(f, p) = "host"
    THEN find_host_json_files(f, p) # <<>>
    ELSE /\ get_subfolders(f, p) = {}
         /\ Len(post_processes(f, p)) = 1
         /\ Truthy(post_processes(f, p)[1].content)

\* get_all_folder_paths that keeps no folder called host
get_all_folder_paths_no_host(f) ==
    {p \in visited(f, <<>>) : is_result_folder(f, p) /\ basename(f, p) # "host"}

\* get_all_folder_paths(folder_path), lines 247-291
get_all_folder_paths(f) == {p \in visited(f, <<>>) : is_result_folder(f, p)}

\* json.load of line 277 raises
get_all_folder_paths_raises(f) ==
    \E p \in visited(f, <<>>) :
        /\ basename(f, p) # "host"
        /\ get_subfolders(f, p) = {}
        /\ Len(post_processes(f, p)) = 1
        /\ is_malformed(post_processes(f, p)[1])

\* the silicon files of a listing whose document is not empty, in the order
\* of the listing: those that pass the `if data` of line 322
loaded_silicon(files) ==
    SelectSeq(files, LAMBDA file : is_silicon(file) /\ Truthy(file.content))

\* the model files of a listing whose document is not empty: those that pass
\* the `if data` of lines 327 and 395
loaded_model(files) ==
    SelectSeq(files, LAMBDA file : is_model(file) /\ Truthy(file.content))

\* the assembly with model and graph not depending on silicon
single_dir_document_flat(folder_map, silicon_data, model_data, graph_data) ==
    IF folder_map = EmptyDict THEN EmptyDict
    ELSE update(Item("folderMap", folder_map),
         update(IF silicon_data = EmptyDict THEN EmptyDict
                ELSE Item("silicon", silicon_data),
         update(IF model_data = EmptyDict THEN EmptyDict
                ELSE Item("model", model_data),
                IF graph_data = EmptyDict THEN EmptyDict
                ELSE Item("graph", graph_data))))

\* lines 338-348
single_dir_document(folder_map, silicon_data, model_data, graph_data) ==
    IF folder_map = EmptyDict THEN EmptyDict
    ELSE update(Item("folderMap", folder_map),
         IF silicon_data = EmptyDict THEN EmptyDict
         ELSE update(Item("silicon", silicon_data),
              update(IF model_data = EmptyDict THEN EmptyDict
                     ELSE Item("model", model_data),
                     IF graph_data = EmptyDict THEN EmptyDict
                     ELSE Item("graph", graph_data))))

\* get_perf_dump_data_single_dir(path_to_output_dir, folder_map), lines
\* 294-348: each dict gets at most the one key foldername, whose value is
\* the last one assigned
get_perf_dump_data_single_dir(f, folder_map) ==
    LET json_files == find_perf_json_files(f, <<>>)
        foldername == <<basename(f, <<>>)>>
        silicon == Last(loaded_silicon(json_files))
        model == Last(loaded_model(json_files))
        graph == Last(find_graph_dumps(f, <<>>))
        silicon_data == IF silicon = <<>> THEN EmptyDict
                        ELSE Item(foldername, silicon[1].content)
        model_data == IF model = <<>> THEN EmptyDict
                      ELSE Item(foldername, model[1].content)
        graph_data == IF graph = <<>> THEN EmptyDict
                      ELSE Item(foldername, graph[1].content)
    IN  IF \E i \in 1..Len(json_files) : is_malformed(json_files[i])
        THEN Failed("JSONDecodeError")
        ELSE Built(single_dir_document(folder_map, silicon_data, model_data,
                                       graph_data))

\* the process id put in every event record, the empty ones too
process_ids_every_record(data, id) ==
    [event \in DOMAIN data |->
        Obj(update(data[event].v, Item("process-id", Str(id))))]

\* lines 374-377: every event record that is not empty gets the process id
process_ids(data, id) ==
    [event \in DOMAIN data |->
        IF ~Truthy(data[event]) THEN data[event]
        ELSE Obj(update(data[event].v, Item("process-id", Str(id))))]

RECURSIVE host_json_data(_, _)
\* the loop of lines 370-379 over host_json_files, json_data being the dict
\* built so far
host_json_data(host_json_files, json_data) ==
    IF host_json_files = <<>> THEN json_data
    ELSE LET json_file == Head(host_json_files)
             data == json_file.content
         IN  host_json_data(Tail(host_json_files),
                 IF Truthy(data)
                 THEN update(json_data,
                             process_ids(data.v, host_json_group2(json_file.name)))
                 ELSE json_data)

\* the folders of all_folder_paths that get an entry in a dict
host_folders(f, paths) ==
    {p \in paths : /\ p[Len(p)] = "host"
                   /\ host_json_data(find_host_json_files(f, p), EmptyDict) # EmptyDict}

\* the folders with a silicon entry, those called host not passed over
silicon_folders_with_host(f, paths) ==
    {p \in paths : SelectSeq(find_perf_json_files(f, p), is_silicon) # <<>>}

silicon_folders(f, paths) ==
    {p \in paths : /\ p[Len(p)] # "host"
                   /\ SelectSeq(find_perf_json_files(f, p), is_silicon) # <<>>}

\* no runtime table recorded
model_folders_none(f, paths) == {}

model_folders(f, paths) ==
    {p \in paths : /\ p[Len(p)] # "host"
                   /\ loaded_model(find_perf_json_files(f, p)) # <<>>}

graph_folders(f, paths) ==
    {p \in paths : p[Len(p)] # "host" /\ find_graph_dumps(f, p) # <<>>}

\* the keys "/".join(folder_path) of the folders of a set
keys(folder_paths) == {join(p) : p \in folder_paths}

\* the folder of the set that has the key k
folder_of(folder_paths, k) == CHOOSE p \in folder_paths : join(p) = k

\* silicon_data after the loop of line 362: for each folder the document of
\* the silicon file loaded last
silicon_data_of(f, paths) ==
    [k \in keys(silicon_folders(f, paths)) |->
        Last(SelectSeq(find_perf_json_files(f, folder_of(paths, k)),
                       is_silicon))[1].content]

\* model_data after the loop
model_data_of(f, paths) ==
    [k \in keys(model_folders(f, paths)) |->
        Last(loaded_model(find_perf_json_files(f, folder_of(paths, k))))[1].content]

\* graph_data after the loop
graph_data_of(f, paths) ==
    [k \in keys(graph_folders(f, paths)) |->
        Last(find_graph_dumps(f, folder_of(paths, k)))[1].content]

\* host_data after the loop
host_data_of(f, paths) ==
    [k \in keys(host_folders(f, paths)) |->
        Obj(host_json_data(find_host_json_files(f, folder_of(paths, k)),
                           EmptyDict))]

\* the assembly without the folder map
document_without_map(folder_map, silicon_data, model_data, graph_data, host_data) ==
    IF folder_map = EmptyDict THEN EmptyDict
    ELSE update(IF silicon_data = EmptyDict THEN EmptyDict
                ELSE update(Item("silicon", silicon_data),
                     update(IF model_data = EmptyDict THEN EmptyDict
                            ELSE Item("model", model_data),
                            IF graph_data = EmptyDict THEN EmptyDict
                            ELSE Item("graph", graph_data))),
                IF host_data = EmptyDict THEN EmptyDict
                ELSE Item("host", host_data))

\* lines 406-417
document(folder_map, silicon_data, model_data, graph_data, host_data) ==
    IF folder_map = EmptyDict THEN EmptyDict
    ELSE update(Item("folderMap", folder_map),
         update(IF silicon_data = EmptyDict THEN EmptyDict
                ELSE update(Item("silicon", silicon_data),
                     update(IF model_data = EmptyDict THEN EmptyDict
                            ELSE Item("model", model_data),
                            IF graph_data = EmptyDict THEN EmptyDict
                            ELSE Item("graph", graph_data))),
                IF host_data = EmptyDict THEN EmptyDict
                ELSE Item("host", host_data)))

\* get_perf_dump_data(path_to_output_dir, folder_map, all_folder_paths),
\* lines 351-419.  folder_path[-1] raises IndexError for the empty path;
\* json.load raises for a malformed file.
get_perf_dump_data(f, folder_map, all_folder_paths) ==
    IF <<>> \in all_folder_paths THEN Failed("IndexError")
    ELSE IF \E p \in all_folder_paths :
               IF p[Len(p)] = "host"
               THEN \E i \in 1..Len(find_host_json_files(f, p)) :
                       is_malformed(find_host_json_files(f, p)[i])
               ELSE \E i \in 1..Len(find_perf_json_files(f, p)) :
                       is_malformed(find_perf_json_files(f, p)[i])
    THEN Failed("JSONDecodeError")
    ELSE Built(document(folder_map,
                        silicon_data_of(f, all_folder_paths),
                        model_data_of(f, all_folder_paths),
                        graph_data_of(f, all_folder_paths),
                        host_data_of(f, all_folder_paths)))

\* the constructor with runtime tables counted by the scan of lines 214-217
PerfDumpData_counts_model(f) ==
    IF ~f.isdir THEN Built(EmptyDict)
    ELSE IF get_subfolders(f, <<>>) = {}
    THEN IF find_perf_json_files(f, <<>>) = <<>> THEN Built(EmptyDict)
         ELSE get_perf_dump_data_single_dir(
                  f, Item(basename(f, <<>>), EmptyDict))
    ELSE IF get_all_folder_paths_raises(f) THEN Failed("JSONDecodeError")
    ELSE get_perf_dump_data(f, set_folder_map(get_all_folder_paths(f)),
                            get_all_folder_paths(f))

\* PerfDumpData(path_to_output_dir), lines 200-231
PerfDumpData(f) ==
    IF ~f.isdir THEN Built(EmptyDict)
    ELSE IF get_subfolders(f, <<>>) = {}
    THEN IF post_processes(f, <<>>) = <<>> THEN Built(EmptyDict)
         ELSE get_perf_dump_data_single_dir(
                  f, Item(basename(f, <<>>), EmptyDict))
    ELSE IF get_all_folder_paths_raises(f) THEN Failed("JSONDecodeError")
    ELSE get_perf_dump_data(f, set_folder_map(get_all_folder_paths(f)),
                            get_all_folder_paths(f))

\* data_string.split('\n'): json.dumps(data, sort_keys=True, indent=4)
\* writes "{}" for the empty dict and otherwise an opening line, the lines
\* of the items and a closing line
data_string_lines(data) ==
    IF data = EmptyDict THEN <<"{}">>
    ELSE <<"{", [items |-> data], "}">>

\* the directory with the given root name, sub folders and files
Dir(root, dirs, files) ==
    [isdir |-> TRUE, root |-> root, dirs |-> dirs,
     files |-> [p \in dirs \cup {<<>>} |-> IF p \in DOMAIN files THEN files[p] ELSE <<>>]]

\* a path that is no directory
NotADir == [isdir |-> FALSE, root |-> "out", dirs |-> {}, files |-> Item(<<>>, <<>>)]

\* the tree of two runs of which the second has host data
ExampleDir ==
    Dir("out", {<<"run1">>, <<"run2">>, <<"run2", "host">>},
        update(Item(<<"run1">>, <<File(PostprocessName, Obj([g |-> Num("1")]))>>),
               Item(<<"run2", "host">>,
                    <<File(HostName3, Obj([evt1 |-> Obj([x |-> Num("1")])]))>>)))

\* what d['dir'] holds when the command loop is explored: no directory, a
\* folder with one postprocess file, a tree with a postprocess file that is
\* not JSON, and the tree of two runs
HandlerDirs ==
    { NotADir,
      Dir("out", {}, Item(<<>>, <<File(PostprocessName, Obj([g |-> Num("1")]))>>)),
      Dir("out", {<<"run1">>},
          Item(<<"run1">>, <<File(PostprocessName, Malformed)>>)),
      ExampleDir }

\* the read_perf_dump_folder branch, lines 531-534, on the directory f
read_perf_dump_folder(f) ==
    LET perfdata == PerfDumpData(f)
    IN  [raised |-> perfdata.raised, err |-> perfdata.err,
         data |-> IF perfdata.raised THEN EmptyDict
                  ELSE [data |-> List(data_string_lines(perfdata.data))]]

\* the quit branch with `done = True` left out
quit_branch_not_done == [data |-> [data |-> Str("quit_ack")], done |-> FALSE]

\* the quit branch, lines 489-491: the acknowledgment, then done = True
quit_branch == [data |-> [data |-> Str("quit_ack")], done |-> TRUE]

\* the else branch answering with a data field and no error
unknown_branch_data == [data |-> Str("unknown command")]

\* the else branch, lines 586-587
unknown_branch == [error |-> Str("unknown command")]

\* `cmd = d['cmd']` succeeds
HasCmd == d.t = "obj" /\ "cmd" \in DOMAIN d.v

CmdIs(name) == HasCmd /\ d.v["cmd"] = Str(name)

\* the end of a loop iteration whose try/except did r
Finish(r, isDone) ==
    /\ resp' = r.resp
    /\ sends' = r.calls
    /\ exc' = r.exc
    /\ done' = isDone
    /\ pc' = next_pc(r.escaped, isDone)
    /\ UNCHANGED <<d, peer, recv, nrecv>>
    /\ UNCHANGED outside

\* receive_cmd returns a command
ReceiveOk ==
    /\ pc = "receive"
    /\ nrecv < MaxCmds
    /\ peer = "open"
    /\ \E c \in Commands : d' = c
    /\ nrecv' = nrecv + 1
    /\ recv' = "ok"
    /\ pc' = "dispatch"
    /\ resp' = <<>>
    /\ sends' = <<>>
    /\ exc' = "none"
    /\ run' = NoRun
    /\ UNCHANGED <<done, peer, procs>>
    /\ UNCHANGED outside

\* receive_cmd raises: the length prefix cannot be read because the peer
\* closed the stream ("eof": struct.unpack of b'', or json.loads of '' in
\* local mode), or the payload is not JSON ("malformed").  The except clause
\* of the loop answers.
ReceiveFails ==
    /\ pc = "receive"
    /\ nrecv < MaxCmds
    /\ \E how \in (IF peer = "closed" THEN {"eof"} ELSE {"eof", "malformed"}),
          sok2 \in BOOLEAN :
          LET r == try_except(TRUE, how, EmptyDict, TRUE, sok2)
          IN  /\ recv' = how
              /\ peer' = IF how = "eof" THEN "closed" ELSE peer
              /\ resp' = r.resp
              /\ sends' = r.calls
              /\ pc' = next_pc(r.escaped, done)
    /\ nrecv' = nrecv + 1
    /\ exc' = "receive"
    /\ run' = NoRun
    /\ UNCHANGED <<done, d, procs>>
    /\ UNCHANGED outside

\* `cmd = d['cmd']` raises: d is no dict, or has no cmd key
NoCmdKey ==
    /\ pc = "dispatch"
    /\ ~HasCmd
    /\ \E sok2 \in BOOLEAN :
          Finish(try_except(TRUE, "'cmd'", EmptyDict, TRUE, sok2), done)
    /\ UNCHANGED <<procs, run>>

Quit ==
    /\ pc = "dispatch"
    /\ CmdIs("quit")
    /\ \E sok1, sok2 \in BOOLEAN :
          LET r == try_except(FALSE, "", quit_branch.data, sok1, sok2)
          IN  Finish(r, IF r.exc = "none" THEN quit_branch.done ELSE done)
    /\ UNCHANGED <<procs, run>>

Echo ==
    /\ pc = "dispatch"
    /\ CmdIs("echo")
    /\ \E sok1, sok2 \in BOOLEAN :
          Finish(try_except(FALSE, "", d.v, sok1, sok2), done)
    /\ UNCHANGED <<procs, run>>

ListTests ==
    /\ pc = "dispatch"
    /\ CmdIs("list_tests")
    /\ \E sok1, sok2 \in BOOLEAN :
          Finish(try_except(FALSE, "", [data |-> List(<<>>)], sok1, sok2), done)
    /\ UNCHANGED <<procs, run>>

\* the three branches that list with `find`: d['dir'] may be missing,
\* subprocess.run may raise (findOk = FALSE)
FindBranch(name) ==
    /\ pc = "dispatch"
    /\ CmdIs(name)
    /\ \E findOk, sok1, sok2 \in BOOLEAN, paths \in FindOutputs, dirs \in SUBSET {"p1", "p2"} :
          LET result == IF name = "list_all_perf_results"
                        THEN filter_isdir(split_lines(paths), dirs)
                        ELSE split_lines(paths)
          IN  IF "dir" \notin DOMAIN d.v
              THEN Finish(try_except(TRUE, "'dir'", EmptyDict, TRUE, sok2), done)
              ELSE IF ~findOk
              THEN Finish(try_except(TRUE, "find failed", EmptyDict, TRUE, sok2), done)
              ELSE Finish(try_except(FALSE, "", [data |-> List(result)], sok1, sok2), done)
    /\ UNCHANGED <<procs, run>>

ListSpatialJson == FindBranch("list_spatial_json")

ListNetlistYaml == FindBranch("list_netlist_yaml")

ListAllPerfResults == FindBranch("list_all_perf_results")

\* the end of a read_perf_dump_folder iteration whose branch did r
FinishPerfDump(r, sok1, sok2) ==
    Finish(try_except(r.raised, r.err, r.data, sok1, sok2), done)

\* PerfDumpData(d['dir']) raises or gives its data_string, according to
\* what d['dir'] holds
ReadPerfDumpFolder ==
    /\ pc = "dispatch"
    /\ CmdIs("read_perf_dump_folder")
    /\ \E sok1, sok2 \in BOOLEAN, f \in HandlerDirs :
          IF "dir" \notin DOMAIN d.v
          THEN Finish(try_except(TRUE, "'dir'", EmptyDict, TRUE, sok2), done)
          ELSE FinishPerfDump(read_perf_dump_folder(f), sok1, sok2)
    /\ UNCHANGED <<procs, run>>

\* Path(filename).read_text() raises when the file is missing (fileOk = FALSE)
ReadFile ==
    /\ pc = "dispatch"
    /\ CmdIs("read_file")
    /\ \E fileOk, sok1, sok2 \in BOOLEAN, text \in FileTexts :
          IF "dir" \notin DOMAIN d.v
          THEN Finish(try_except(TRUE, "'dir'", EmptyDict, TRUE, sok2), done)
          ELSE IF "filename" \notin DOMAIN d.v
          THEN Finish(try_except(TRUE, "'filename'", EmptyDict, TRUE, sok2), done)
          ELSE IF ~fileOk
          THEN Finish(try_except(TRUE, "[Errno 2] No such file or directory",
                                 EmptyDict, TRUE, sok2), done)
          ELSE Finish(try_except(FALSE, "", [data |-> List(text)], sok1, sok2), done)
    /\ UNCHANGED <<procs, run>>

WriteFile ==
    /\ pc = "dispatch"
    /\ CmdIs("write_file")
    /\ \E fileOk, sok1, sok2 \in BOOLEAN :
          IF "filename" \notin DOMAIN d.v
          THEN Finish(try_except(TRUE, "'filename'", EmptyDict, TRUE, sok2), done)
          ELSE IF "data" \notin DOMAIN d.v
          THEN Finish(try_except(TRUE, "'data'", EmptyDict, TRUE, sok2), done)
          ELSE IF ~fileOk
          THEN Finish(try_except(TRUE, "[Errno 13] Permission denied",
                                 EmptyDict, TRUE, sok2), done)
          ELSE Finish(try_except(FALSE, "", EmptyDict, sok1, sok2), done)
    /\ UNCHANGED <<procs, run>>

\* the state of the child after the branch: process.kill() of line 585 runs
\* when the last send_response of the branch returned; an exception skips it
child_after(s, r) ==
    IF s.killed \/ (s.last /\ r.exc = "none") THEN "killed" ELSE "alive"

\* the end of a run_test iteration whose branch did s and whose try/except
\* did r
FinishRun(s, r, script) ==
    /\ Finish(r, done)
    /\ procs' = IF s.spawned THEN Append(procs, child_after(s, r)) ELSE procs
    /\ run' = [ran |-> TRUE, spawnOk |-> s.spawned,
               script |-> IF s.spawned THEN script ELSE <<>>, stdin |-> s.stdin]

\* the try/except of the loop around a run_test branch that did s
RunTestSends(s, sok1, sok2, script) ==
    FinishRun(s, try_except(s.raised, s.err, s.data, sok1, sok2), script)

\* The run_test branch, lines 552-585.
RunTest ==
    /\ pc = "dispatch"
    /\ CmdIs("run_test")
    /\ \E spawnOk, wok1, wok2, sok1, sok2 \in BOOLEAN :
       \E script \in (IF spawnOk THEN Scripts ELSE {<<>>}) :
          RunTestSends(run_test_steps(d.v, spawnOk, script, wok1, wok2),
                       sok1, sok2, script)

UnknownCmd ==
    /\ pc = "dispatch"
    /\ HasCmd
    /\ \A name \in Catalog : d.v["cmd"] # Str(name)
    /\ \E sok1, sok2 \in BOOLEAN :
          Finish(try_except(FALSE, "", unknown_branch, sok1, sok2), done)
    /\ UNCHANGED <<procs, run>>

Next ==
    \/ ReceiveOk
    \/ ReceiveFails
    \/ NoCmdKey
    \/ Quit
    \/ Echo
    \/ ListTests
    \/ ListSpatialJson
    \/ ListNetlistYaml
    \/ ListAllPerfResults
    \/ ReadPerfDumpFolder
    \/ ReadFile
    \/ WriteFile
    \/ RunTest
    \/ UnknownCmd

Spec == Init /\ [][Next]_vars

(* ------------------------- the server process -------------------------- *)
\* The finally clause of lines 603-606, entered when the loop has ended or
\* an exception has left it: it closes the listening socket if there is one.
\* It does nothing to `connection` and nothing to the children.
Finally ==
    /\ pc \in {"exited", "crashed"}
    /\ pc' = "finished"
    /\ sock' = IF sock # "none" THEN "closed" ELSE sock
    /\ UNCHANGED <<done, d, peer, recv, nrecv, resp, sends, exc, procs, run,
                   connection>>
    /\ UNCHANGED <<channel, perfdump, reading>>

\* the server started in local mode or in network mode
InitServer ==
    /\ LoopEntry
    /\ \E local \in BOOLEAN : Startup(local)
    /\ ChannelIdle
    /\ PerfDumpIdle
    /\ reading = NoReading

NextServer ==
    \/ Next
    \/ Finally

SpecServer == InitServer /\ [][NextServer]_vars

(* ------------------------- the framed stream --------------------------- *)
\* send_response and receive_cmd in network mode, byte by byte.  A byte is a
\* number in 0..255.  On the stream a JSON string is the tuple of its
\* characters and a dict the sequence of its <<key, value>> items in
\* insertion order, which is the order json.dumps writes them in.

\* number of send_response calls and of receive_cmd calls that are explored
MaxFrames == 2

CStr(chars) == [t |-> "str", v |-> chars]

CNum(digits) == [t |-> "num", v |-> digits]

CNull == [t |-> "null", v |-> <<>>]

CDict(items) == [t |-> "dict", v |-> items]

ErrorKey == <<"e", "r", "r", "o", "r">>

\* the values given to send_response
ChannelValues ==
    { CDict(<<>>),
      CDict(<< <<ErrorKey, CStr(<<>>)>> >>),
      CDict(<< <<ErrorKey, CNull>> >>),
      CDict(<< <<ErrorKey, CStr(<<"e">>)>> >>),
      CDict(<< <<<<"d">>, CNum(<<"1">>)>>, <<ErrorKey, CStr(<<"x">>)>> >>),
      CDict(<< <<<<"d">>, CStr(<<"e", "r", "r", "o", "r">>)>> >>) }

\* the code point of a character of the texts above
Ord(c) ==
    CASE c = "\"" -> 34  [] c = "{" -> 123 [] c = "}" -> 125 [] c = ":" -> 58
      [] c = "," -> 44   [] c = " " -> 32  [] c = "1" -> 49  [] c = "d" -> 100
      [] c = "e" -> 101  [] c = "l" -> 108 [] c = "n" -> 110 [] c = "o" -> 111
      [] c = "r" -> 114  [] c = "u" -> 117 [] c = "x" -> 120

RECURSIVE dumps(_), dumps_items(_)
\* json.dumps(v) with the default separators ", " and ": "
dumps(v) ==
    CASE v.t = "str" -> <<"\"">> \o v.v \o <<"\"">>
      [] v.t = "num" -> v.v
      [] v.t = "null" -> <<"n", "u", "l", "l">>
      [] v.t = "dict" -> <<"{">> \o dumps_items(v.v) \o <<"}">>

dumps_items(items) ==
    IF items = <<>> THEN <<>>
    ELSE <<"\"">> \o items[1][1] \o <<"\"", ":", " ">> \o dumps(items[1][2])
         \o (IF Len(items) > 1 THEN <<",", " ">> \o dumps_items(Tail(items))
             ELSE <<>>)

\* str.encode('utf-8') of a text of ASCII characters
encode(text) == [i \in 1..Len(text) |-> Ord(text[i])]

\* struct.pack('<i', n) for 0 <= n < 2^31
pack(n) ==
    <<n % 256, (n \div 256) % 256, (n \div 65536) % 256, (n \div 16777216) % 256>>

\* struct.unpack('<i', b)[0]: four bytes, little-endian, two's complement
unpack(b) ==
    b[1] + 256 * b[2] + 65536 * b[3]
    + 16777216 * (IF b[4] >= 128 THEN b[4] - 256 ELSE b[4])

\* lines 172-173: data["error"] = "" when data has no error or a null one
set_empty_error(v) ==
    IF \E i \in 1..Len(v.v) : v.v[i][1] = ErrorKey
    THEN CDict([i \in 1..Len(v.v) |->
                  IF v.v[i][1] = ErrorKey /\ v.v[i][2] = CNull
                  THEN <<ErrorKey, CStr(<<>>)>> ELSE v.v[i]])
    ELSE CDict(Append(v.v, <<ErrorKey, CStr(<<>>)>>))

\* lines 174, 179: json.dumps(data).encode('utf-8')
send_data(v) == encode(dumps(set_empty_error(v)))

\* lines 180-183: the length, then the payload
framed(payload) == pack(Len(payload)) \o payload

Min(a, b) == IF a < b THEN a ELSE b

Max(a, b) == IF a > b THEN a ELSE b

\* the bytes json.loads skips around a document
JsonSpace == {32, 9, 10, 13}

RECURSIVE strip(_)
strip(b) ==
    IF b = <<>> THEN b
    ELSE IF b[1] \in JsonSpace THEN strip(Tail(b))
    ELSE IF b[Len(b)] \in JsonSpace THEN strip(SubSeq(b, 1, Len(b) - 1))
    ELSE b

\* the values a text on this stream can denote: the documents send_response
\* writes and the scalars in them
Documents ==
    {set_empty_error(v) : v \in ChannelValues}
    \cup {CStr(<<>>), CStr(<<"e">>), CStr(<<"x">>), CStr(ErrorKey),
          CStr(<<"d">>), CNum(<<"1">>), CNull}

Returned(v, buffer) == [raised |-> FALSE, err |-> "", value |-> v, bytes |-> buffer]

Raised(e, buffer) == [raised |-> TRUE, err |-> e, value |-> CNull, bytes |-> buffer]

\* lines 162-165: json.loads(rec_buffer.decode('utf-8')): the document the
\* text is, or JSONDecodeError for a text that is none (empty, cut short, or
\* with bytes after the document)
json_loads(buffer) ==
    IF \E v \in Documents : encode(dumps(v)) = strip(buffer)
    THEN Returned(CHOOSE v \in Documents : encode(dumps(v)) = strip(buffer), buffer)
    ELSE Raised("JSONDecodeError", buffer)

\* send_response(connection, data) in network mode, lines 172-183
SendResponse ==
    /\ Len(sent) < MaxFrames
    /\ \E v \in ChannelValues :
          /\ wire' = wire \o framed(send_data(v))
          /\ sent' = Append(sent, [v |-> v, payload |-> send_data(v)])
    /\ UNCHANGED <<rcv, got, loop, sock, connection, perfdump, reading>>

\* Lines 154-156: connection.recv(4) returns the k first bytes of the stream,
\* at least one and at most four; struct.unpack raises on fewer than four.
\* A length that is not positive skips the loop of line 158, and json.loads
\* raises on the empty text.
RecvPrefix ==
    /\ rcv.pc = "idle"
    /\ Len(got) < MaxFrames
    /\ wire # <<>>
    /\ \E k \in 1..Min(4, Len(wire)) :
          LET data == SubSeq(wire, 1, k)
          IN  /\ wire' = SubSeq(wire, k + 1, Len(wire))
              /\ IF k < 4
                 THEN /\ got' = Append(got, Raised("struct.error", <<>>))
                      /\ rcv' = Idle
                 ELSE IF unpack(data) <= 0
                 THEN /\ got' = Append(got, json_loads(<<>>))
                      /\ rcv' = Idle
                 ELSE /\ got' = got
                      /\ rcv' = [pc |-> "loop", expected |-> unpack(data),
                                 received |-> 0, buffer |-> <<>>]
    /\ UNCHANGED <<sent, loop, sock, connection, perfdump, reading>>

\* One iteration of the loop of lines 158-161:
\* connection.recv(max(16, amount_expected - amount_received)) returns the k
\* first bytes of the stream; when the loop ends, lines 163-166 decode the
\* buffer.
RecvChunk ==
    /\ rcv.pc = "loop"
    /\ wire # <<>>
    /\ \E k \in 1..Min(Max(16, rcv.expected - rcv.received), Len(wire)) :
          LET data == SubSeq(wire, 1, k)
              amount_received == rcv.received + k
              rec_buffer == rcv.buffer \o SubSeq(data, 1, Min(k, amount_received))
          IN  /\ wire' = SubSeq(wire, k + 1, Len(wire))
              /\ IF amount_received < rcv.expected
                 THEN /\ rcv' = [rcv EXCEPT !.received = amount_received,
                                            !.buffer = rec_buffer]
                      /\ got' = got
                 ELSE /\ rcv' = Idle
                      /\ got' = Append(got, json_loads(rec_buffer))
    /\ UNCHANGED <<sent, loop, sock, connection, perfdump, reading>>

InitChannel ==
    /\ LoopEntry
    /\ Startup(FALSE)
    /\ ChannelIdle
    /\ PerfDumpIdle
    /\ reading = NoReading

NextChannel ==
    \/ SendResponse
    \/ RecvPrefix
    \/ RecvChunk

SpecChannel == InitChannel /\ [][NextChannel]_vars

(* ------------------------- the perf dump folder ------------------------ *)
\* PerfDumpData on the directories that the skeletons and up to MaxFiles
\* files make.

RECURSIVE file_count(_, _)
\* the number of files in the folders ps of the directory f
file_count(f, ps) ==
    IF ps = {} THEN 0
    ELSE LET p == CHOOSE q \in ps : TRUE
         IN  Len(f.files[p]) + file_count(f, ps \ {p})

\* one more file appears in a folder, after those the folder lists already
CreateFile ==
    /\ ~agg.ran
    /\ fs.isdir
    /\ file_count(fs, folders(fs)) < MaxFiles
    /\ \E p \in folders(fs) :
       \E file \in (IF basename(fs, p) = "host" THEN HostFiles ELSE DataFiles) :
          /\ \A i \in 1..Len(fs.files[p]) : fs.files[p][i].name # file.name
          /\ fs' = [fs EXCEPT !.files[p] = Append(@, file)]
    /\ UNCHANGED <<agg, loop, sock, connection, channel, reading>>

\* the response of the loop to a read_perf_dump_folder whose branch did r,
\* on a channel that takes it
perf_dump_response(r) == try_except(r.raised, r.err, r.data, TRUE, TRUE).resp

\* read_perf_dump_folder on the directory, lines 531-534
BuildPerfDump ==
    /\ ~agg.ran
    /\ agg' = [ran |-> TRUE,
               raised |-> PerfDumpData(fs).raised,
               data |-> PerfDumpData(fs).data,
               resp |-> perf_dump_response(read_perf_dump_folder(fs))]
    /\ UNCHANGED <<fs, loop, sock, connection, channel, reading>>

InitPerfDump ==
    /\ LoopEntry
    /\ Startup(FALSE)
    /\ ChannelIdle
    /\ reading = NoReading
    /\ agg = NoAgg
    /\ \/ fs = NotADir
       \/ \E root \in RootNames, dirs \in Skeletons : fs = Dir(root, dirs, EmptyDict)

NextPerfDump ==
    \/ CreateFile
    \/ BuildPerfDump

SpecPerfDump == InitPerfDump /\ [][NextPerfDump]_vars

(* --------------------------- read until ready -------------------------- *)
\* get_test_output on every stdout of the model.

\* get_test_output(process), lines 78-118
GetTestOutput ==
    /\ ~reading.returned
    /\ reading' = [reading EXCEPT !.returned = TRUE,
                                  !.test = get_test_output(reading.stream)]
    /\ UNCHANGED <<loop, sock, connection, channel, perfdump>>

InitTestOutput ==
    /\ LoopEntry
    /\ Startup(FALSE)
    /\ ChannelIdle
    /\ PerfDumpIdle
    /\ \E script \in Scripts : reading = [NoReading EXCEPT !.stream = script]

NextTestOutput == GetTestOutput

SpecTestOutput == InitTestOutput /\ [][NextTestOutput]_vars

(* ------------------------- properties: helpers ------------------------- *)
\* The child's script read directly, without the operators above.

\* the length of raw without its trailing whitespace
TextLen(raw) ==
    CHOOSE k \in 0..Len(raw) :
        /\ \A j \in (k + 1)..Len(raw) : raw[j] \in Whitespace
        /\ k = 0 \/ raw[k] \notin Whitespace

Text(raw) == SubSeq(raw, 1, TextLen(raw))

\* a line holding the prompt marker and nothing but whitespace after it
IsPromptEvent(ev) ==
    /\ ev.kind = "line"
    /\ Len(ev.raw) >= Len(TEST_PROMPT)
    /\ SubSeq(ev.raw, 1, Len(TEST_PROMPT)) = TEST_PROMPT
    /\ \A j \in (Len(TEST_PROMPT) + 1)..Len(ev.raw) : ev.raw[j] \in Whitespace

\* the positions of a script at which a read-until-ready stops
Stops(script) ==
    {k \in 1..Len(script) : script[k].kind = "raise" \/ IsPromptEvent(script[k])}

\* the first stop after position k; Len + 1 when the output ends first
StopAfter(script, k) ==
    IF \E j \in Stops(script) : j > k
    THEN CHOOSE j \in Stops(script) : j > k /\ \A i \in Stops(script) : i > k => j <= i
    ELSE Len(script) + 1

\* the lines of the script strictly between positions i and j
TextsBetween(script, i, j) ==
    [k \in 1..(j - i - 1) |-> Text(script[i + k].raw)]

\* the loop is not inside an iteration
BetweenCommands == pc # "dispatch"

LoopEnded == pc \in {"exited", "crashed"}

NonEmptyError(r) ==
    /\ "error" \in DOMAIN r
    /\ r["error"].t = "str"
    /\ r["error"].v # ""

\* this iteration ran the run_test branch on a command with a test key
RanTest == run.ran /\ recv = "ok" /\ CmdIs("run_test") /\ "test" \in DOMAIN d.v

(* ------------------------------- claims -------------------------------- *)

\* C1: a command that receive_cmd returned gets at most one response, and
\* exactly one by the time the loop is back at receive_cmd or has ended with
\* quit; no response has been sent while the command is being dispatched.
C1_OneResponsePerCommand ==
    recv = "ok" =>
        /\ Len(resp) <= 1
        /\ pc = "dispatch" => resp = <<>>
        /\ pc \in {"receive", "exited"} => Len(resp) = 1

\* C1 witness: a run_test whose branch raised has been answered once and
\* the loop is back at receive_cmd
C1_Witness ==
    /\ recv = "ok"
    /\ pc = "receive"
    /\ RanTest
    /\ exc = "handler"
    /\ Len(resp) = 1

\* C2: between commands no child is alive (as the claim states it)
C2_ChildKilledAfterRunTest ==
    BetweenCommands => \A i \in 1..Len(procs) : procs[i] = "killed"

\* C3: every response on the channel has an error field holding a string
\* (as the claim states it)
C3_ErrorIsString ==
    \A i \in 1..Len(resp) :
        /\ "error" \in DOMAIN resp[i]
        /\ resp[i]["error"].t = "str"

\* C4: for a child that prints a prompt, a second prompt and then ends, with
\* no read failing, the response of a run_test in which no write and no
\* send_response raised has the lines around the two prompts as output, in
\* order and without the prompt lines, the lines between them as data, and
\* an empty error.
C4_OutputOfThreeSteps ==
    \A i, j \in 1..Len(run.script) :
        ( /\ RanTest
          /\ run.spawnOk
          /\ exc = "none"
          /\ i < j
          /\ Stops(run.script) = {i, j}
          /\ IsPromptEvent(run.script[i])
          /\ IsPromptEvent(run.script[j]) )
        => /\ Len(resp) = 1
           /\ DOMAIN resp[1] = {"error", "output", "data"}
           /\ resp[1]["output"].v =
                 TextsBetween(run.script, 0, i)
                 \o TextsBetween(run.script, i, j)
                 \o TextsBetween(run.script, j, Len(run.script) + 1)
           /\ resp[1]["data"].v = TextsBetween(run.script, i, j)
           /\ resp[1]["error"] = Str("")

\* C4 witness: the child of the example (line, prompt, line, prompt, end)
\* has been run and answered
C4_Witness ==
    /\ RanTest
    /\ exc = "none"
    /\ run.script = << Line(<<"a", "\n">>),
                       Line(<<" ", " ", "C", "M", "D", ">", "\n">>),
                       Line(<<"b", " ", "\n">>),
                       Line(<<" ", " ", "C", "M", "D", ">", "\n">>) >>
    /\ Len(resp) = 1
    /\ resp[1]["output"].v = << <<"a">>, <<"b">> >>
    /\ resp[1]["data"].v = << <<"b">> >>

\* step 1 of the run reached the prompt at position i and list_ops() was
\* written
Step2Ran(i) ==
    /\ RanTest
    /\ run.spawnOk
    /\ i = StopAfter(run.script, 0)
    /\ i <= Len(run.script)
    /\ IsPromptEvent(run.script[i])
    /\ Len(run.stdin) >= 1
    /\ run.stdin[1].ok

\* C5: when step 2 ends on a read error or without a prompt, exit() is not
\* injected and the response has the output of steps 1 and 2 and a
\* non-empty error, which is the no-prompt reason exactly in the no-prompt
\* case (as the claim states it)
C5_Step2FailureStops ==
    \A i \in 1..Len(run.script) :
        LET j == StopAfter(run.script, i)
            noPrompt == j > Len(run.script)
        IN  ( /\ Step2Ran(i)
              /\ noPrompt \/ run.script[j].kind = "raise" )
            => /\ Len(run.stdin) = 1
               /\ exc # "handler"
               /\ exc = "none" =>
                     /\ Len(resp) = 1
                     /\ resp[1]["output"].v =
                           TextsBetween(run.script, 0, i) \o TextsBetween(run.script, i, j)
                     /\ NonEmptyError(resp[1])
                     /\ noPrompt <=>
                           resp[1]["error"] = Str("Test stopped after first command.")

\* C6: when Popen raises, or step 1 ends on a read error or without a
\* prompt, nothing is written to the child, the branch does not raise, every
\* response has a non-empty error, and the response of the branch carries
\* the lines read before the stop (none when Popen raised).
C6_Step1FailureReturns ==
    LET i == StopAfter(run.script, 0)
    IN  ( /\ RanTest
          /\ \/ ~run.spawnOk
             \/ i > Len(run.script)
             \/ run.script[i].kind = "raise" )
        => /\ run.stdin = <<>>
           /\ exc # "handler"
           /\ \A k \in 1..Len(resp) : NonEmptyError(resp[k])
           /\ exc = "none" =>
                 /\ Len(resp) = 1
                 /\ DOMAIN resp[1] = {"error", "output"}
                 /\ resp[1]["output"].v =
                       IF run.spawnOk THEN TextsBetween(run.script, 0, i) ELSE <<>>

\* C6 witness: a child printed a line and ended without a prompt, and the
\* run was answered
C6_Witness ==
    /\ RanTest
    /\ run.spawnOk
    /\ Len(run.script) >= 1
    /\ Stops(run.script) = {}
    /\ exc = "none"
    /\ Len(resp) = 1
    /\ resp[1]["output"].v # <<>>

\* C7: once receive_cmd has failed on a closed stream the loop has ended
\* (as the claim states it)
C7_EofEndsLoop ==
    recv = "eof" => LoopEnded

\* C8: the loop has ended only after a quit command or after the
\* send_response of the except clause raised; a branch that raised was answered with one error
\* response and the loop is back at receive_cmd, unless that send_response
\* raised.
C8_LoopEndsOnlyOnQuitOrTransport ==
    /\ pc = "exited" =>
          /\ recv = "ok"
          /\ CmdIs("quit")
          /\ done
    /\ pc = "crashed" =>
          /\ sends # <<>>
          /\ ~sends[Len(sends)]
    /\ (BetweenCommands /\ exc = "handler" /\ sends = <<TRUE>>) =>
          /\ pc = "receive"
          /\ Len(resp) = 1
          /\ NonEmptyError(resp[1])

\* C8 witness: a branch raised on a missing field, was answered, and the
\* loop is back at receive_cmd
C8_Witness ==
    /\ recv = "ok"
    /\ CmdIs("read_file")
    /\ exc = "handler"
    /\ pc = "receive"
    /\ Len(resp) = 1

\* C9: a command whose cmd is not in the catalog is answered only with
\* responses that have a non-empty error and no data; when the channel takes
\* the response of the branch it is the only one and the loop is back at
\* receive_cmd.
C9_UnknownCommand ==
    ( /\ recv = "ok"
      /\ BetweenCommands
      /\ HasCmd
      /\ \A name \in Catalog : d.v["cmd"] # Str(name) )
    => /\ \A k \in 1..Len(resp) :
             /\ NonEmptyError(resp[k])
             /\ "data" \notin DOMAIN resp[k]
       /\ exc # "handler"
       /\ exc = "none" => (Len(resp) = 1 /\ pc = "receive")

\* C9 witness: {"cmd": "bogus"} was answered
C9_Witness ==
    /\ recv = "ok"
    /\ CmdIs("bogus")
    /\ exc = "none"
    /\ pc = "receive"
    /\ Len(resp) = 1

\* the acknowledgment of quit is on the channel
QuitAcked ==
    /\ recv = "ok"
    /\ BetweenCommands
    /\ CmdIs("quit")
    /\ exc = "none"
    /\ resp = << [data |-> Str("quit_ack"), error |-> Str("")] >>

\* C10: once the acknowledgment of quit is on the channel the loop has
\* ended, and no step receives a command or sends a response.
C10_QuitEndsLoop ==
    [][QuitAcked => /\ pc = "exited"
                    /\ nrecv' = nrecv
                    /\ resp' = resp
                    /\ sends' = sends]_vars

\* C10 witness: quit was acknowledged and the loop has ended
C10_Witness == QuitAcked /\ pc = "exited" /\ done


\* C11: once the server has left its loop and run its cleanup, the channel
\* to the peer is closed and no child process is left alive.
C11_ExitReleasesResources ==
    pc = "finished" =>
        /\ connection # "open"
        /\ \A i \in 1..Len(procs) : procs[i] = "killed"


\* the frames put on the stream from the i-th on
RECURSIVE FramesFrom(_)
FramesFrom(i) ==
    IF i > Len(sent) THEN <<>> ELSE framed(sent[i].payload) \o FramesFrom(i + 1)

\* C12: whenever no receive is in progress, each receive made so far has
\* returned the payload of the frame of its rank, and the stream holds
\* exactly the frames not yet received, whatever the sizes of the reads.
C12_ReceiveConsumesOneFrame ==
    rcv.pc = "idle" =>
        /\ Len(got) <= Len(sent)
        /\ \A j \in 1..Len(got) :
              ~got[j].raised /\ got[j].bytes = sent[j].payload
        /\ wire = FramesFrom(Len(got) + 1)

\* C13: every value a receive returns is the value that was given to send
\* for the frame of the same rank, and no receive raises.
C13_RoundTrip ==
    \A j \in 1..Len(got) :
        j <= Len(sent) /\ ~got[j].raised /\ got[j].value = sent[j].v

(* -------------------- properties of the perf dump ---------------------- *)
\* The directory and the document read directly.

\* PerfDumpData returned a document
Emitted == agg.ran /\ ~agg.raised

\* a section of the document, empty when the document has none
Section(name) == IF name \in DOMAIN agg.data THEN agg.data[name] ELSE EmptyDict

TreeMode == fs.isdir /\ fs.dirs # {}

SingleDirMode == fs.isdir /\ fs.dirs = {}

RECURSIVE IsPathIn(_, _)
\* the names are the nodes of a path of the folder map, from its top
IsPathIn(map, names) ==
    \/ names = <<>>
    \/ /\ Head(names) \in DOMAIN map
       /\ IsPathIn(map[Head(names)], Tail(names))

RECURSIVE Nodes(_, _)
\* the nodes of a folder map, each as the path leading to it
Nodes(map, prefix) ==
    UNION {{prefix \o <<n>>} \cup Nodes(map[n], prefix \o <<n>>) : n \in DOMAIN map}

Prefixes(paths) == UNION {{SubSeq(p, 1, n) : n \in 1..Len(p)} : p \in paths}

\* the folder is the root called host, or lies below a folder called host
HostAbove(p) == fs.root = "host" \/ \E n \in 1..(Len(p) - 1) : p[n] = "host"

\* the positions in the listing of a folder of the files of each kind
SiliconAt(p) == {i \in 1..Len(fs.files[p]) : is_silicon(fs.files[p][i])}

ModelAt(p) == {i \in 1..Len(fs.files[p]) : is_model(fs.files[p][i])}

GraphAt(p) == {i \in 1..Len(fs.files[p]) : is_graph(fs.files[p][i])}

HostJsonAt(p) == {i \in 1..Len(fs.files[p]) : is_host_json(fs.files[p][i])}

HasSubFolder(p) == \E q \in fs.dirs : Len(q) = Len(p) + 1 /\ SubSeq(q, 1, Len(p)) = p

\* the folders that hold data: a folder called host with a host file, or a
\* folder without sub folders with exactly one postprocess file, whose
\* document is not empty; none of them below a folder called host
LeafPaths ==
    {p \in fs.dirs :
        /\ ~HostAbove(p)
        /\ IF p[Len(p)] = "host"
           THEN HostJsonAt(p) # {}
           ELSE /\ ~HasSubFolder(p)
                /\ Cardinality(SiliconAt(p)) = 1
                /\ \A i \in SiliconAt(p) : Truthy(fs.files[p][i].content)}

\* the document the specification gives for ExampleDir
ExampleDocument ==
    ("folderMap" :> ("run1" :> EmptyDict @@ "run2" :> ("host" :> EmptyDict)))
    @@ ("silicon" :> (<<"run1">> :> Obj([g |-> Num("1")])))
    @@ ("host" :> (<<"run2", "/", "host">> :>
                     Obj("evt1" :> Obj("x" :> Num("1") @@ "process-id" :> Str("3")))))

\* C14: in every document, each key of silicon, model, graph and host,
\* split on "/", is a path of nodes of the folder map.
C14_KeysAreFolderMapPaths ==
    Emitted =>
        \A s \in {"silicon", "model", "graph", "host"} :
            \A k \in DOMAIN Section(s) : IsPathIn(Section("folderMap"), split(k))

\* a tree whose document has a silicon key and a host key two folders deep
C14_Witness ==
    /\ Emitted
    /\ TreeMode
    /\ Section("silicon") # EmptyDict
    /\ \E k \in DOMAIN Section("host") : Len(split(k)) = 2

\* C15: in tree mode the nodes of the folder map are the data folders and
\* the folders above them, and no other; the tree of the example gives the
\* document of the example.
C15_FolderMapIsPrefixTree ==
    (Emitted /\ TreeMode) =>
        /\ Nodes(Section("folderMap"), <<>>) = Prefixes(LeafPaths)
        /\ fs = ExampleDir => agg.data = ExampleDocument

\* the tree of the example has been read
C15_Witness == Emitted /\ fs = ExampleDir

\* C16: in single-directory mode a document without silicon has neither
\* model nor graph.
C16_NoSiliconNoModelNoGraph ==
    (Emitted /\ SingleDirMode /\ "silicon" \notin DOMAIN agg.data) =>
        "model" \notin DOMAIN agg.data /\ "graph" \notin DOMAIN agg.data

\* a folder with a postprocess file of empty content, a runtime table that
\* is not empty and a graph dump
C16_Witness ==
    /\ Emitted
    /\ SingleDirMode
    /\ "folderMap" \in DOMAIN agg.data
    /\ "silicon" \notin DOMAIN agg.data
    /\ \E i \in ModelAt(<<>>) : Truthy(fs.files[<<>>][i].content)
    /\ GraphAt(<<>>) # {}

\* the run of digits after proc_ in a file name
DigitsOf(name) == name[(CHOOSE j \in 1..Len(name) : name[j] = "proc_") + 1]

\* the event record as the host section must hold it, coming from a file
\* of the given name
Stamped(record, name) ==
    IF record = Obj(EmptyDict) THEN record
    ELSE Obj(update(record.v, Item("process-id", Str(DigitsOf(name)))))

\* C17: each event record of the host section comes from a host file of the
\* folder that defines the event; it is that file's record with the digits
\* of that file's name as process-id when the record is not empty, and the
\* empty record without process-id otherwise.
C17_ProcessIdOfContributingFile ==
    Emitted =>
        \A k \in DOMAIN Section("host") :
            \A e \in DOMAIN Section("host")[k].v :
                \E i \in HostJsonAt(split(k)) :
                    LET file == fs.files[split(k)][i]
                    IN  /\ file.content.t = "obj"
                        /\ e \in DOMAIN file.content.v
                        /\ Section("host")[k].v[e]
                             = Stamped(file.content.v[e], file.name)

\* two host files of one folder that both define evt1 have been merged
C17_Witness ==
    /\ Emitted
    /\ \E k \in DOMAIN Section("host") :
          /\ Cardinality(HostJsonAt(split(k))) = 2
          /\ DOMAIN Section("host")[k].v = {"evt1", "evt2"}

\* a file the patterns classify as JSON data
Classified(file) == is_silicon(file) \/ is_model(file) \/ is_host_json(file)

HasMalformedFile ==
    \E p \in folders(fs) :
        \E i \in 1..Len(fs.files[p]) :
            Classified(fs.files[p][i]) /\ is_malformed(fs.files[p][i])

\* the directory with an empty document in place of each malformed file
AsEmpty(f) ==
    [f EXCEPT !.files =
        [p \in DOMAIN f.files |->
            [i \in 1..Len(f.files[p]) |->
                IF is_malformed(f.files[p][i])
                THEN File(f.files[p][i].name, Obj(EmptyDict))
                ELSE f.files[p][i]]]]

\* C18: with a malformed classified file in the directory the aggregation
\* completes, gives the document the other files give, and the response
\* has an empty error.
C18_MalformedFileIsAbsentData ==
    (agg.ran /\ HasMalformedFile) =>
        /\ ~agg.raised
        /\ agg.data = PerfDumpData(AsEmpty(fs)).data
        /\ Len(agg.resp) = 1
        /\ agg.resp[1]["error"] = Str("")

\* the folders of a tree that have no sub folder and exactly one
\* postprocess file, and are not called host or below a folder called host
OnePostprocessFolders ==
    {p \in fs.dirs :
        /\ ~HostAbove(p)
        /\ p[Len(p)] # "host"
        /\ ~HasSubFolder(p)
        /\ Cardinality(SiliconAt(p)) = 1}

\* the documents of the runtime tables of a folder that are not empty
RuntimeTables(p) ==
    {fs.files[p][i].content :
        i \in {j \in ModelAt(p) : Truthy(fs.files[p][j].content)}}

GraphDumps(p) == {fs.files[p][i].content : i \in GraphAt(p)}

\* the runtime table and the graph dump of the folder are in the document
ModelAndGraphRecorded(p) ==
    /\ RuntimeTables(p) # {} =>
          /\ join(p) \in DOMAIN Section("model")
          /\ Section("model")[join(p)] \in RuntimeTables(p)
    /\ GraphDumps(p) # {} =>
          /\ join(p) \in DOMAIN Section("graph")
          /\ Section("graph")[join(p)] \in GraphDumps(p)

HasRootFolderMap ==
    /\ "folderMap" \in DOMAIN agg.data
    /\ agg.data["folderMap"] = Item(fs.root, EmptyDict)

\* C21 as stated: in single-directory mode the document is empty exactly
\* when the root holds neither a postprocess file nor a runtime table, and
\* with one of the two it has the folder map of the one entry named after
\* the root.
C21_EmptyWithoutSiliconAndModel ==
    (Emitted /\ SingleDirMode) =>
        IF SiliconAt(<<>>) = {} /\ ModelAt(<<>>) = {}
        THEN agg.data = EmptyDict
        ELSE HasRootFolderMap

\* C21 amended: in single-directory mode a root without a postprocess file
\* always gives the empty document, whatever runtime tables it holds; a
\* root with a postprocess file gives, when a document is returned, one
\* that has the folder map of the one entry named after the root.
C21_EmptyWithoutSilicon ==
    (agg.ran /\ SingleDirMode) =>
        IF SiliconAt(<<>>) = {}
        THEN ~agg.raised /\ agg.data = EmptyDict
        ELSE ~agg.raised => HasRootFolderMap

\* a root that holds a runtime table that is not empty and no postprocess
\* file has been read
C21_Witness ==
    /\ Emitted
    /\ SingleDirMode
    /\ SiliconAt(<<>>) = {}
    /\ \E i \in ModelAt(<<>>) : Truthy(fs.files[<<>>][i].content)
    /\ agg.data = EmptyDict

\* the folders of a tree without sub folders, not called host, that hold
\* no postprocess file or more than one
NotOnePostprocessFolders ==
    {p \in fs.dirs :
        /\ p[Len(p)] # "host"
        /\ ~HasSubFolder(p)
        /\ Cardinality(SiliconAt(p)) # 1}

\* C22: in tree mode a folder without sub folders, not called host, that
\* holds no postprocess file or more than one is no node of the folder map,
\* and its path is no key of silicon, model or graph, whatever other files
\* it holds.
C22_OnlyOnePostprocessIsLeaf ==
    (Emitted /\ TreeMode) =>
        \A p \in NotOnePostprocessFolders :
            /\ p \notin Nodes(Section("folderMap"), <<>>)
            /\ \A s \in {"silicon", "model", "graph"} :
                  join(p) \notin DOMAIN Section(s)

\* a tree has been read in which one folder holds two postprocess files and
\* another folder gave the document its silicon section
C22_Witness ==
    /\ Emitted
    /\ TreeMode
    /\ Section("silicon") # EmptyDict
    /\ \E p \in NotOnePostprocessFolders : Cardinality(SiliconAt(p)) = 2

\* a folder with a runtime table and a graph dump and no postprocess file
\* is next to a folder that gave the document its silicon section
C22_WitnessNone ==
    /\ Emitted
    /\ TreeMode
    /\ Section("silicon") # EmptyDict
    /\ \E p \in NotOnePostprocessFolders :
          SiliconAt(p) = {} /\ ModelAt(p) # {} /\ GraphAt(p) # {}

\* C23: in every document, of a single directory or of a tree, model and
\* graph are present only with silicon, and silicon, model, graph and host
\* only with the folder map; in a tree no key of silicon, model or graph
\* ends in host.
C23_SectionsNest ==
    Emitted =>
        /\ ("model" \in DOMAIN agg.data \/ "graph" \in DOMAIN agg.data)
              => "silicon" \in DOMAIN agg.data
        /\ (\E s \in {"silicon", "model", "graph", "host"} : s \in DOMAIN agg.data)
              => "folderMap" \in DOMAIN agg.data
        /\ TreeMode =>
              \A s \in {"silicon", "model", "graph"} :
                  \A k \in DOMAIN Section(s) : Last(split(k)) # <<"host">>

\* a tree has been read whose document has a silicon section and a host
\* section, the folder called host holding a postprocess file too
C23_Witness ==
    /\ Emitted
    /\ TreeMode
    /\ "silicon" \in DOMAIN agg.data
    /\ "host" \in DOMAIN agg.data
    /\ \E k \in DOMAIN Section("host") : SiliconAt(split(k)) # {}

\* a single directory has been read whose document has silicon, model and
\* graph
C23_WitnessSingleDir ==
    /\ Emitted
    /\ SingleDirMode
    /\ {"silicon", "model", "graph"} \subseteq DOMAIN agg.data

(* ------------------ properties of the read until ready ----------------- *)

\* the number of reads the call made
ReadsMade == Len(reading.stream) - Len(reading.test.rest)

\* C19: a get_test_output that returns prompt false has killed the child;
\* one that returns prompt true has read the prompt marker last, has not
\* killed the child, and its output is the lines read before the prompt,
\* none of which is the prompt.
C19_NoPromptMeansKilled ==
    reading.returned =>
        /\ ~reading.test.prompt => reading.test.killed
        /\ reading.test.prompt =>
              /\ ReadsMade >= 1
              /\ IsPromptEvent(reading.stream[ReadsMade])
              /\ ~reading.test.killed
              /\ reading.test.output = TextsBetween(reading.stream, 0, ReadsMade)
              /\ \A i \in 1..Len(reading.test.output) :
                    reading.test.output[i] # TEST_PROMPT

\* a call that read two lines and then the prompt
C19_Witness ==
    /\ reading.returned
    /\ reading.test.prompt
    /\ Len(reading.test.output) = 2

\* a call on an output that ended without a prompt
C19_WitnessNoPrompt ==
    /\ reading.returned
    /\ ~reading.test.prompt
    /\ reading.test.error = Null
    /\ reading.test.killed

====
